---- MODULE Spec2Model ----
(***************************************************************************)
(* A model of the wire-protocol codec engine of edgedb-go:                 *)
(*   - Pop, the descriptor stream parser (codecs.go), one loop iteration   *)
(*     per action;                                                         *)
(*   - the Decode / Encode methods of every codec, as operators over byte  *)
(*     sequences, applied by the actions of an encode/decode session.      *)
(* Bytes are naturals 0..255, a buffer is a sequence of bytes.  A 32-bit   *)
(* or 64-bit word is the sequence of its 4 or 8 big-endian bytes, so that  *)
(* no word is wider than the integers of the model checker.                *)
(***************************************************************************)
EXTENDS Integers, Sequences, FiniteSets, TLC

VARIABLES
    descs,      \* the descriptors the server put on the wire (the input of Pop)
    bts,        \* Pop: *bts, the bytes not yet read
    codecs,     \* Pop: the codec list
    lookup,     \* Pop: the CodecLookup being built
    pc,         \* Pop: "loop", "done" (returned) or "panic"
    ret,        \* Pop: what the caller received
    codec,      \* session: the codec in use
    val,        \* session: the argument value of Encode
    pre,        \* session: the output buffer before Encode
    buf,        \* session: the buffer (*bts) of Encode, then of Decode
    out,        \* session: what Decode returned
    st,         \* session: the position of the caller
    objBuf,     \* Object.Decode: buf, the bytes of the envelope not yet read
    objN,       \* Object.Decode: elmCount
    objI,       \* Object.Decode: i
    objOut,     \* Object.Decode: out
    optBool,    \* an OptionalBool: [val, present]
    optBytes,   \* an OptionalBytes: [val, isSet]
    boolCall,   \* the most recent Set or Unset on optBool: [op, arg]
    bytesCall,  \* the most recent Set or Unset on optBytes: [op, arg]
    got         \* what Get returned, when the most recent call was a Get

vars == <<descs, bts, codecs, lookup, pc, ret,
          codec, val, pre, buf, out, st, objBuf, objN, objI, objOut,
          optBool, optBytes, boolCall, bytesCall, got>>

popVars == <<descs, bts, codecs, lookup, pc, ret>>
sessVars == <<codec, val, pre, buf, out, st, objBuf, objN, objI, objOut>>
optVars == <<optBool, optBytes, boolCall, bytesCall, got>>

(***************************************************************************)
(* Bounds of the model.                                                    *)
(***************************************************************************)
MaxDescs == 3       \* descriptors in a stream
MaxFields == 2      \* fields of an object, tuple or named tuple descriptor
MaxDims == 1        \* dimensions an array descriptor declares

(***************************************************************************)
(* Sequences of bytes and words.                                           *)
(***************************************************************************)
Take(b, n) == SubSeq(b, 1, n)
Drop(b, n) == SubSeq(b, n + 1, Len(b))

RECURSIVE Shr8(_, _)
\* n shifted right by 8*k bits (arithmetic shift: \div rounds down)
Shr8(n, k) == IF k = 0 THEN n ELSE Shr8(n \div 256, k - 1)

\* uint16(n) as two big-endian bytes
U16(n) == <<(n \div 256) % 256, n % 256>>
\* uint32(n), n any 32-bit integer, as four big-endian bytes (two's complement)
U32(n) == [i \in 1..4 |-> Shr8(n, 4 - i) % 256]
\* uint64(n), n any integer of the model, as eight big-endian bytes
U64(n) == [i \in 1..8 |-> Shr8(n, 8 - i) % 256]

\* int16(u) of a 16-bit unsigned u
Int16Of(u) == IF u >= 32768 THEN u - 65536 ELSE u
\* int32(w) of a 32-bit word
Int32Of(w) ==
    (IF w[1] >= 128 THEN w[1] - 256 ELSE w[1]) * 16777216
        + w[2] * 65536 + w[3] * 256 + w[4]

(***************************************************************************)
(* The byte cursor primitives (package protocol).  A read returns          *)
(* [ok, v, rest]; ok is FALSE when the buffer is too short, which in Go    *)
(* is a slice-bounds panic.                                                *)
(***************************************************************************)
Fail == [ok |-> FALSE, v |-> 0, rest |-> <<>>]
Ok(v, rest) == [ok |-> TRUE, v |-> v, rest |-> rest]

PopN(b, n) == IF Len(b) < n THEN Fail ELSE Ok(Take(b, n), Drop(b, n))

PopUint8(b) == IF Len(b) < 1 THEN Fail ELSE Ok(b[1], Tail(b))
PopUint16(b) == IF Len(b) < 2 THEN Fail ELSE Ok(b[1] * 256 + b[2], Drop(b, 2))
PopUint32(b) == PopN(b, 4)
PopUint64(b) == PopN(b, 8)
PopUUID(b) == PopN(b, 16)
PeekUint32(b) == IF Len(b) < 4 THEN Fail ELSE Ok(Take(b, 4), b)

\* a length-prefixed byte string: [length:u32][bytes]
PopBytes(b) ==
    LET n == PopUint32(b)
    IN  IF ~n.ok THEN Fail
        ELSE IF n.v[1] >= 128 THEN Fail
        ELSE PopN(n.rest, Int32Of(n.v))
PopString(b) == PopBytes(b)

PushUint8(b, x) == Append(b, x)
PushUint16(b, x) == b \o U16(x)
PushUint32(b, w) == b \o w
PushUint64(b, w) == b \o w
PushBytes(b, s) == (b \o U32(Len(s))) \o s
PushString(b, s) == PushBytes(b, s)

(***************************************************************************)
(* Descriptor type tags.                                                   *)
(***************************************************************************)
setType == 0
objectType == 1
baseScalarType == 2
scalarType == 3
tupleType == 4
namedTupleType == 5
arrayType == 6
enumType == 7

Zeros14 == [i \in 1..14 |-> 0]
\* the id of base scalar x: 00..00 01 x
BaseId(x) == Zeros14 \o <<1, x>>

(***************************************************************************)
(* The per-tag constructors of Pop.  Each returns [ok, v, rest]: the codec *)
(* and the bytes left, or ok = FALSE when it panics (a short buffer, an    *)
(* index outside the codec list).                                          *)
(***************************************************************************)
InRange(cs, index) == index + 1 <= Len(cs)

\* a faulty popSetCodec: the index is not checked against the codec list,
\* and an index outside it yields a codec that is none
popSetCodecUnchecked(b, id, cs) ==
    LET n == PopUint16(b)
    IN  IF ~n.ok THEN Fail
        ELSE Ok([kind |-> "Set",
                 child |-> IF InRange(cs, n.v) THEN cs[n.v + 1] ELSE [kind |-> "nil"]],
                n.rest)

popSetCodec(b, id, cs) ==
    LET n == PopUint16(b)
    IN  IF ~n.ok THEN Fail
        ELSE IF ~InRange(cs, n.v) THEN Fail
        ELSE Ok([kind |-> "Set", child |-> cs[n.v + 1]], n.rest)

RECURSIVE popObjectFields(_, _, _, _)
popObjectFields(b, cs, n, fields) ==
    IF n <= 0 THEN Ok(fields, b)
    ELSE LET flags == PopUint8(b)
             name == PopString(flags.rest)
             index == PopUint16(name.rest)
         IN  IF ~flags.ok \/ ~name.ok \/ ~index.ok THEN Fail
             ELSE IF ~InRange(cs, index.v) THEN Fail
             ELSE popObjectFields(index.rest, cs, n - 1,
                     Append(fields,
                         [isImplicit |-> flags.v % 2 # 0,
                          isLinkProperty |-> (flags.v \div 2) % 2 # 0,
                          isLink |-> (flags.v \div 4) % 2 # 0,
                          name |-> name.v,
                          codec |-> cs[index.v + 1]]))

popObjectCodec(b, id, cs) ==
    LET elmCount == PopUint16(b)
        fields == popObjectFields(elmCount.rest, cs, elmCount.v, <<>>)
    IN  IF ~elmCount.ok \/ ~fields.ok THEN Fail
        ELSE Ok([kind |-> "Object", fields |-> fields.v], fields.rest)

getBaseScalarCodec(id) ==
    CASE id = BaseId(0) -> Ok([kind |-> "UUID"], <<>>)
      [] id = BaseId(1) -> Ok([kind |-> "String"], <<>>)
      [] id = BaseId(2) -> Ok([kind |-> "Bytes"], <<>>)
      [] id = BaseId(3) -> Ok([kind |-> "Int16"], <<>>)
      [] id = BaseId(4) -> Ok([kind |-> "Int32"], <<>>)
      [] id = BaseId(5) -> Ok([kind |-> "Int64"], <<>>)
      [] id = BaseId(6) -> Ok([kind |-> "Float32"], <<>>)
      [] id = BaseId(7) -> Ok([kind |-> "Float64"], <<>>)
      [] id = BaseId(9) -> Ok([kind |-> "Bool"], <<>>)
      [] id = BaseId(10) -> Ok([kind |-> "DateTime"], <<>>)
      [] id = BaseId(14) -> Ok([kind |-> "Duration"], <<>>)
      [] id = BaseId(15) -> Ok([kind |-> "JSON"], <<>>)
      [] OTHER -> Fail

RECURSIVE popTupleFields(_, _, _, _)
popTupleFields(b, cs, n, fields) ==
    IF n <= 0 THEN Ok(fields, b)
    ELSE LET index == PopUint16(b)
         IN  IF ~index.ok THEN Fail
             ELSE IF ~InRange(cs, index.v) THEN Fail
             ELSE popTupleFields(index.rest, cs, n - 1,
                                 Append(fields, cs[index.v + 1]))

popTupleCodec(b, id, cs) ==
    LET elmCount == PopUint16(b)
        fields == popTupleFields(elmCount.rest, cs, elmCount.v, <<>>)
    IN  IF ~elmCount.ok \/ ~fields.ok THEN Fail
        ELSE Ok([kind |-> "Tuple", fields |-> fields.v], fields.rest)

RECURSIVE popNamedTupleFields(_, _, _, _)
popNamedTupleFields(b, cs, n, fields) ==
    IF n <= 0 THEN Ok(fields, b)
    ELSE LET name == PopString(b)
             index == PopUint16(name.rest)
         IN  IF ~name.ok \/ ~index.ok THEN Fail
             ELSE IF ~InRange(cs, index.v) THEN Fail
             ELSE popNamedTupleFields(index.rest, cs, n - 1,
                     Append(fields, [name |-> name.v, codec |-> cs[index.v + 1]]))

popNamedTupleCodec(b, id, cs) ==
    LET elmCount == PopUint16(b)
        fields == popNamedTupleFields(elmCount.rest, cs, elmCount.v, <<>>)
    IN  IF ~elmCount.ok \/ ~fields.ok THEN Fail
        ELSE Ok([kind |-> "NamedTuple", fields |-> fields.v], fields.rest)

\* a faulty popArrayCodec: the dimensions are left in the buffer
popArrayCodecKeepDims(b, id, cs) ==
    LET index == PopUint16(b)
        n == PopUint16(index.rest)
    IN  IF ~index.ok \/ ~n.ok THEN Fail
        ELSE IF ~InRange(cs, index.v) THEN Fail
        ELSE Ok([kind |-> "Array", child |-> cs[index.v + 1]], n.rest)

popArrayCodec(b, id, cs) ==
    LET index == PopUint16(b)
        n == PopUint16(index.rest)
        dims == PopN(n.rest, 4 * n.v)
    IN  IF ~index.ok \/ ~n.ok \/ ~dims.ok THEN Fail
        ELSE IF ~InRange(cs, index.v) THEN Fail
        ELSE Ok([kind |-> "Array", child |-> cs[index.v + 1]], dims.rest)

(***************************************************************************)
(* 64-bit arithmetic on words (two's complement, wrapping as Go's int64).  *)
(***************************************************************************)
RECURSIVE AddCarry(_, _, _)
\* the carry out of byte i when a and b are added
AddCarry(a, b, i) ==
    IF i > Len(a) THEN 0 ELSE (a[i] + b[i] + AddCarry(a, b, i + 1)) \div 256
WAdd(a, b) == [i \in 1..Len(a) |-> (a[i] + b[i] + AddCarry(a, b, i + 1)) % 256]
WNeg(a) == WAdd([i \in 1..Len(a) |-> 255 - a[i]], [i \in 1..Len(a) |-> IF i = Len(a) THEN 1 ELSE 0])
IsNeg(a) == a[1] >= 128

RECURSIVE MulCarry(_, _, _)
MulCarry(a, m, i) ==
    IF i > Len(a) THEN 0 ELSE (a[i] * m + MulCarry(a, m, i + 1)) \div 256
\* a * m for 0 < m <= 1000000
WMul(a, m) == [i \in 1..Len(a) |-> (a[i] * m + MulCarry(a, m, i + 1)) % 256]

RECURSIVE DivRem(_, _, _)
\* the remainder of the unsigned bytes a[1..i] divided by d, 0 < d <= 1000000
DivRem(a, d, i) == IF i = 0 THEN 0 ELSE (DivRem(a, d, i - 1) * 256 + a[i]) % d
UDiv(a, d) == [i \in 1..Len(a) |-> (DivRem(a, d, i - 1) * 256 + a[i]) \div d]
\* a / d and a % d of Go: the quotient truncated toward zero, the remainder
\* with the sign of a
WDiv(a, d) == IF IsNeg(a) THEN WNeg(UDiv(WNeg(a), d)) ELSE UDiv(a, d)
WRem(a, d) == IF IsNeg(a) THEN 0 - DivRem(WNeg(a), d, Len(a)) ELSE DivRem(a, d, Len(a))

(***************************************************************************)
(* Values.  A Go value is [t, v]: its dynamic type and its content.        *)
(*   nil; UUID, string, bytes (byte sequences); int16, int32, int (an      *)
(*   integer); int64, Duration (a 64-bit word); float32, float64 (the bit  *)
(*   pattern); bool; Time ([sec, nsec]: the Unix seconds as a 64-bit word  *)
(*   and the nanoseconds 0..999999999 within the second);                  *)
(*   slice ([]interface{}), Set, Array, Tuple (sequences of values);       *)
(*   map (map[string]interface{}), Object, NamedTuple (functions from      *)
(*   names to values).                                                     *)
(***************************************************************************)
V(t, v) == [t |-> t, v |-> v]
Nil == V("nil", 0)

\* the float64 of a small integer
F64(n) ==
    CASE n = 0 -> <<0, 0, 0, 0, 0, 0, 0, 0>>
      [] n = 1 -> <<63, 240, 0, 0, 0, 0, 0, 0>>
      [] n = 2 -> <<64, 0, 0, 0, 0, 0, 0, 0>>
      [] n = 3 -> <<64, 8, 0, 0, 0, 0, 0, 0>>

(***************************************************************************)
(* encoding/json, for the values of the model: nil, bool, string of        *)
(* letters, int and float64 of 0..3.  Unmarshal into an interface{} makes  *)
(* every number a float64.                                                 *)
(***************************************************************************)
jsonMarshal(x) ==
    CASE x.t = "nil" -> [ok |-> TRUE, v |-> <<110, 117, 108, 108>>]
      [] x.t = "bool" -> [ok |-> TRUE,
                          v |-> IF x.v THEN <<116, 114, 117, 101>>
                                ELSE <<102, 97, 108, 115, 101>>]
      [] x.t = "int" -> [ok |-> TRUE, v |-> <<48 + x.v>>]
      [] x.t = "float64" ->
            [ok |-> TRUE, v |-> <<48 + (CHOOSE n \in 0..3 : F64(n) = x.v)>>]
      [] x.t = "string" -> [ok |-> TRUE, v |-> (<<34>> \o x.v) \o <<34>>]

jsonUnmarshal(text) ==
    CASE text = <<110, 117, 108, 108>> -> [ok |-> TRUE, v |-> Nil]
      [] text = <<116, 114, 117, 101>> -> [ok |-> TRUE, v |-> V("bool", TRUE)]
      [] text = <<102, 97, 108, 115, 101>> -> [ok |-> TRUE, v |-> V("bool", FALSE)]
      [] Len(text) = 1 /\ text[1] \in 48..51 ->
            [ok |-> TRUE, v |-> V("float64", F64(text[1] - 48))]
      [] Len(text) >= 2 /\ text[1] = 34 /\ text[Len(text)] = 34
            /\ (\A i \in 2..(Len(text) - 1) : text[i] \in 97..122) ->
            [ok |-> TRUE, v |-> V("string", SubSeq(text, 2, Len(text) - 1))]
      [] OTHER -> [ok |-> FALSE, v |-> Nil]

(***************************************************************************)
(* Encode.  Encode(c, b, x) is [ok, buf]: whether c.Encode(&b, x) returned *)
(* and the buffer it left; ok = FALSE is a panic (a failed type assertion, *)
(* an index out of range, an explicit panic), and buf then holds what was  *)
(* written before it.                                                      *)
(***************************************************************************)
Done(b) == [ok |-> TRUE, buf |-> b]
Panic(b) == [ok |-> FALSE, buf |-> b]

EncodeUUID(b, x) ==
    LET b1 == PushUint32(b, U32(16))
    IN  IF x.t # "UUID" THEN Panic(b1) ELSE Done(b1 \o x.v)

EncodeString(b, x) == IF x.t # "string" THEN Panic(b) ELSE Done(PushString(b, x.v))

EncodeBytes(b, x) == IF x.t # "bytes" THEN Panic(b) ELSE Done(PushBytes(b, x.v))

EncodeInt16(b, x) ==
    LET b1 == PushUint32(b, U32(2))
    IN  IF x.t # "int16" THEN Panic(b1) ELSE Done(PushUint16(b1, x.v % 65536))

EncodeInt32(b, x) ==
    LET b1 == PushUint32(b, U32(4))
    IN  IF x.t # "int32" THEN Panic(b1) ELSE Done(PushUint32(b1, U32(x.v)))

EncodeInt64(b, x) ==
    LET b1 == PushUint32(b, U32(8))
    IN  IF x.t # "int64" THEN Panic(b1) ELSE Done(PushUint64(b1, x.v))

EncodeFloat32(b, x) ==
    LET b1 == PushUint32(b, U32(4))
    IN  IF x.t # "float32" THEN Panic(b1) ELSE Done(PushUint32(b1, x.v))

EncodeFloat64(b, x) ==
    LET b1 == PushUint32(b, U32(8))
    IN  IF x.t # "float64" THEN Panic(b1) ELSE Done(PushUint64(b1, x.v))

EncodeBool(b, x) ==
    LET b1 == PushUint32(b, U32(1))
    IN  IF x.t # "bool" THEN Panic(b1) ELSE Done(PushUint8(b1, IF x.v THEN 1 ELSE 0))

EncodeDateTime(b, x) ==
    IF x.t # "Time" THEN Panic(b)
    ELSE LET seconds == WAdd(x.v.sec, U64(0 - 946684800))
             nanoseconds == x.v.nsec
             microseconds == WAdd(WMul(seconds, 1000000), U64(nanoseconds \div 1000))
         IN  Done(PushUint64(PushUint32(b, U32(8)), microseconds))

EncodeDuration(b, x) ==
    IF x.t # "Duration" THEN Panic(b)
    ELSE Done(PushUint32(PushUint32(PushUint64(PushUint32(b, U32(16)),
                                               WDiv(x.v, 1000)),
                                    U32(0)),
                         U32(0)))

EncodeJSON(b, x) ==
    LET m == jsonMarshal(x)
    IN  IF ~m.ok THEN Panic(b)
        ELSE Done(PushUint8(PushUint32(b, U32(1 + Len(m.v))), 1) \o m.v)

\* a faulty Set.Encode: an empty set is written
EncodeSetEmpty(b, x) == Done(PushUint32(PushUint32(b, U32(4)), U32(0)))

EncodeSet(b, x) == Panic(b)

EncodeObject(b, x) == Panic(b)

RECURSIVE Encode(_, _, _)

RECURSIVE EncodeTupleFields(_, _, _, _)
\* the loop of Tuple.Encode from field i on
EncodeTupleFields(c, tmp, in, i) ==
    IF i > Len(c.fields) THEN Done(tmp)
    ELSE LET t1 == PushUint32(tmp, U32(0))
         IN  IF i > Len(in) THEN Panic(t1)
             ELSE LET e == Encode(c.fields[i], t1, in[i])
                  IN  IF ~e.ok THEN e ELSE EncodeTupleFields(c, e.buf, in, i + 1)

\* a faulty Tuple.Encode: no case for a tuple without fields
EncodeTupleNoEmptyCase(c, b, x) ==
    LET elmCount == Len(c.fields)
    IN  IF x.t # "slice" THEN Panic(b)
        ELSE LET tmp == EncodeTupleFields(c, PushUint32(<<>>, U32(elmCount)), x.v, 1)
             IN  IF ~tmp.ok THEN Panic(b)
                 ELSE Done(PushUint32(b, U32(Len(tmp.buf))) \o tmp.buf)

EncodeTuple(c, b, x) ==
    LET elmCount == Len(c.fields)
    IN  IF elmCount = 0
        THEN Done(PushUint32(PushUint32(b, U32(4)), U32(elmCount)))
        ELSE IF x.t # "slice" THEN Panic(b)
        ELSE LET tmp == EncodeTupleFields(c, PushUint32(<<>>, U32(elmCount)), x.v, 1)
             IN  IF ~tmp.ok THEN Panic(b)
                 ELSE Done(PushUint32(b, U32(Len(tmp.buf))) \o tmp.buf)

\* in[name] of a Go map: the nil interface when the key is missing
MapGet(in, name) == IF name \in DOMAIN in THEN in[name] ELSE Nil

RECURSIVE EncodeNamedTupleFields(_, _, _, _)
EncodeNamedTupleFields(c, tmp, in, i) ==
    IF i > Len(c.fields) THEN Done(tmp)
    ELSE LET field == c.fields[i]
             e == Encode(field.codec, PushUint32(tmp, U32(0)), MapGet(in, field.name))
         IN  IF ~e.ok THEN e ELSE EncodeNamedTupleFields(c, e.buf, in, i + 1)

EncodeNamedTuple(c, b, x) ==
    IF x.t # "map" THEN Panic(b)
    ELSE LET tmp == EncodeNamedTupleFields(c, PushUint32(<<>>, U32(Len(c.fields))), x.v, 1)
         IN  IF ~tmp.ok THEN Panic(b)
             ELSE Done(PushUint32(b, U32(Len(tmp.buf))) \o tmp.buf)

RECURSIVE EncodeArrayElements(_, _, _, _)
EncodeArrayElements(c, tmp, in, i) ==
    IF i > Len(in) THEN Done(tmp)
    ELSE LET e == Encode(c.child, tmp, in[i])
         IN  IF ~e.ok THEN e ELSE EncodeArrayElements(c, e.buf, in, i + 1)

\* the dimension the array announces: upper 3, lower 1
ArrayHeader ==
    PushUint32(PushUint32(PushUint32(PushUint32(PushUint32(<<>>,
        U32(1)), U32(0)), U32(0)), U32(3)), U32(1))

\* a faulty Array.Encode: the length counts its own four bytes
EncodeArrayLengthInclusive(c, b, x) ==
    IF x.t # "slice" THEN Panic(b)
    ELSE LET tmp == EncodeArrayElements(c, ArrayHeader, x.v, 1)
         IN  IF ~tmp.ok THEN Panic(b)
             ELSE Done(PushUint32(b, U32(Len(tmp.buf) + 4)) \o tmp.buf)

EncodeArray(c, b, x) ==
    IF x.t # "slice" THEN Panic(b)
    ELSE LET tmp == EncodeArrayElements(c, ArrayHeader, x.v, 1)
         IN  IF ~tmp.ok THEN Panic(b)
             ELSE Done(PushUint32(b, U32(Len(tmp.buf))) \o tmp.buf)

Encode(c, b, x) ==
    CASE c.kind = "UUID" -> EncodeUUID(b, x)
      [] c.kind = "String" -> EncodeString(b, x)
      [] c.kind = "Bytes" -> EncodeBytes(b, x)
      [] c.kind = "Int16" -> EncodeInt16(b, x)
      [] c.kind = "Int32" -> EncodeInt32(b, x)
      [] c.kind = "Int64" -> EncodeInt64(b, x)
      [] c.kind = "Float32" -> EncodeFloat32(b, x)
      [] c.kind = "Float64" -> EncodeFloat64(b, x)
      [] c.kind = "Bool" -> EncodeBool(b, x)
      [] c.kind = "DateTime" -> EncodeDateTime(b, x)
      [] c.kind = "Duration" -> EncodeDuration(b, x)
      [] c.kind = "JSON" -> EncodeJSON(b, x)
      [] c.kind = "Set" -> EncodeSet(b, x)
      [] c.kind = "Object" -> EncodeObject(b, x)
      [] c.kind = "Tuple" -> EncodeTuple(c, b, x)
      [] c.kind = "NamedTuple" -> EncodeNamedTuple(c, b, x)
      [] c.kind = "Array" -> EncodeArray(c, b, x)

(***************************************************************************)
(* Decode.  Decode(c, b) is [ok, v, rest]: whether c.Decode(&b) returned,  *)
(* the value, and the bytes it left in b; ok = FALSE is a panic.           *)
(***************************************************************************)
DecodeUUID(b) ==
    LET n == PopUint32(b)
        id == PopUUID(n.rest)
    IN  IF ~n.ok \/ ~id.ok THEN Fail ELSE Ok(V("UUID", id.v), id.rest)

DecodeString(b) ==
    LET s == PopString(b)
    IN  IF ~s.ok THEN Fail ELSE Ok(V("string", s.v), s.rest)

DecodeBytes(b) ==
    LET s == PopBytes(b)
    IN  IF ~s.ok THEN Fail ELSE Ok(V("bytes", s.v), s.rest)

\* a faulty Int16.Decode: the 16 bits are taken as unsigned
DecodeInt16Unsigned(b) ==
    LET n == PopUint32(b)
        u == PopUint16(n.rest)
    IN  IF ~n.ok \/ ~u.ok THEN Fail ELSE Ok(V("int16", u.v), u.rest)

DecodeInt16(b) ==
    LET n == PopUint32(b)
        u == PopUint16(n.rest)
    IN  IF ~n.ok \/ ~u.ok THEN Fail ELSE Ok(V("int16", Int16Of(u.v)), u.rest)

DecodeInt32(b) ==
    LET n == PopUint32(b)
        u == PopUint32(n.rest)
    IN  IF ~n.ok \/ ~u.ok THEN Fail ELSE Ok(V("int32", Int32Of(u.v)), u.rest)

DecodeInt64(b) ==
    LET n == PopUint32(b)
        u == PopUint64(n.rest)
    IN  IF ~n.ok \/ ~u.ok THEN Fail ELSE Ok(V("int64", u.v), u.rest)

DecodeFloat32(b) ==
    LET n == PopUint32(b)
        bits == PopUint32(n.rest)
    IN  IF ~n.ok \/ ~bits.ok THEN Fail ELSE Ok(V("float32", bits.v), bits.rest)

DecodeFloat64(b) ==
    LET n == PopUint32(b)
        bits == PopUint64(n.rest)
    IN  IF ~n.ok \/ ~bits.ok THEN Fail ELSE Ok(V("float64", bits.v), bits.rest)

\* a faulty Bool.Decode: every byte but 0 is true
DecodeBoolCoerce(b) ==
    LET n == PopUint32(b)
        u == PopUint8(n.rest)
    IN  IF ~n.ok \/ ~u.ok THEN Fail
        ELSE Ok(V("bool", u.v # 0), u.rest)

DecodeBool(b) ==
    LET n == PopUint32(b)
        u == PopUint8(n.rest)
    IN  IF ~n.ok \/ ~u.ok THEN Fail
        ELSE IF u.v > 1 THEN Fail
        ELSE Ok(V("bool", u.v # 0), u.rest)

\* time.Unix(sec, nsec) for -1000000000 < nsec < 1000000000
timeUnix(sec, nsec) ==
    IF nsec < 0
    THEN [sec |-> WAdd(sec, U64(0 - 1)), nsec |-> nsec + 1000000000]
    ELSE [sec |-> sec, nsec |-> nsec]

DecodeDateTime(b) ==
    LET n == PopUint32(b)
        u == PopUint64(n.rest)
    IN  IF ~n.ok \/ ~u.ok THEN Fail
        ELSE LET seconds == WDiv(u.v, 1000000)
                 microseconds == WRem(u.v, 1000000)
             IN  Ok(V("Time", timeUnix(WAdd(U64(946684800), seconds),
                                       1000 * microseconds)),
                    u.rest)

DecodeDuration(b) ==
    LET n == PopUint32(b)
        microseconds == PopUint64(n.rest)
        r1 == PopUint32(microseconds.rest)
        r2 == PopUint32(r1.rest)
    IN  IF ~n.ok \/ ~microseconds.ok \/ ~r1.ok \/ ~r2.ok THEN Fail
        ELSE Ok(V("Duration", WMul(microseconds.v, 1000)), r2.rest)

DecodeJSON(b) ==
    LET n == PopUint32(b)
        format == PopUint8(n.rest)
    IN  IF ~n.ok \/ ~format.ok THEN Fail
        ELSE IF n.v[1] >= 128 \/ Int32Of(n.v) = 0 THEN Fail
        ELSE LET text == PopN(format.rest, Int32Of(n.v) - 1)
                 u == jsonUnmarshal(text.v)
             IN  IF ~text.ok THEN Fail
                 ELSE IF ~u.ok THEN Fail
                 ELSE Ok(u.v, text.rest)

RECURSIVE Decode(_, _)

RECURSIVE DecodeElements(_, _, _, _)
\* the loop of Set.Decode and Array.Decode: n more elements
DecodeElements(c, b, n, elems) ==
    IF n <= 0 THEN Ok(elems, b)
    ELSE LET e == Decode(c.child, b)
         IN  IF ~e.ok THEN Fail
             ELSE DecodeElements(c, e.rest, n - 1, Append(elems, e.v))

\* the body Set.Decode and Array.Decode share; t is the type returned
DecodeCollection(c, b, t) ==
    LET buf0 == PopBytes(b)
        dimCount == PopUint32(buf0.v)
        r1 == PopUint32(dimCount.rest)
        r2 == PopUint32(r1.rest)
        upper == PopUint32(r2.rest)
        lower == PopUint32(upper.rest)
    IN  IF ~buf0.ok \/ ~dimCount.ok THEN Fail
        ELSE IF dimCount.v = U32(0) THEN Ok(V(t, <<>>), buf0.rest)
        ELSE IF ~r1.ok \/ ~r2.ok \/ ~upper.ok \/ ~lower.ok THEN Fail
        ELSE LET elmCount == Int32Of(upper.v) - Int32Of(lower.v) + 1
             IN  IF elmCount < 0 THEN Fail
                 ELSE LET es == DecodeElements(c, lower.rest, elmCount, <<>>)
                      IN  IF ~es.ok THEN Fail ELSE Ok(V(t, es.v), buf0.rest)

DecodeSet(c, b) == DecodeCollection(c, b, "Set")

DecodeArray(c, b) == DecodeCollection(c, b, "Array")

\* a faulty iteration of Object.Decode: the length -1 is peeked, not read
DecodeObjectFieldKeepSentinel(field, b) ==
    LET reserved == PopUint32(b)
        length == PeekUint32(reserved.rest)
    IN  IF ~reserved.ok \/ ~length.ok THEN Fail
        ELSE IF Int32Of(length.v) = 0 - 1
        THEN Ok(V("Set", <<>>), reserved.rest)
        ELSE Decode(field.codec, reserved.rest)

\* one iteration of the loop of Object.Decode, for field `field`, on the
\* bytes b of the envelope: [ok, v, rest]
DecodeObjectField(field, b) ==
    LET reserved == PopUint32(b)
        length == PeekUint32(reserved.rest)
    IN  IF ~reserved.ok \/ ~length.ok THEN Fail
        ELSE IF Int32Of(length.v) = 0 - 1
        THEN Ok(V("Set", <<>>), PopUint32(reserved.rest).rest)
        ELSE Decode(field.codec, reserved.rest)

RECURSIVE DecodeObjectFields(_, _, _, _, _)
\* the loop of Object.Decode from i (0-based) on
DecodeObjectFields(c, b, elmCount, i, o) ==
    IF i >= elmCount THEN Ok(o, b)
    ELSE IF i + 1 > Len(c.fields) THEN Fail
    ELSE LET f == DecodeObjectField(c.fields[i + 1], b)
         IN  IF ~f.ok THEN Fail
             ELSE DecodeObjectFields(c, f.rest, elmCount, i + 1,
                                     (c.fields[i + 1].name :> f.v) @@ o)

DecodeObject(c, b) ==
    LET buf0 == PopBytes(b)
        elmCount == PopUint32(buf0.v)
    IN  IF ~buf0.ok \/ ~elmCount.ok THEN Fail
        ELSE LET o == DecodeObjectFields(c, elmCount.rest, Int32Of(elmCount.v), 0, <<>>)
             IN  IF ~o.ok THEN Fail ELSE Ok(V("Object", o.v), buf0.rest)

RECURSIVE DecodeTupleFields(_, _, _, _, _)
DecodeTupleFields(c, b, elmCount, i, o) ==
    IF i >= elmCount THEN Ok(o, b)
    ELSE LET reserved == PopUint32(b)
         IN  IF ~reserved.ok THEN Fail
             ELSE IF i + 1 > Len(c.fields) THEN Fail
             ELSE LET f == Decode(c.fields[i + 1], reserved.rest)
                  IN  IF ~f.ok THEN Fail
                      ELSE DecodeTupleFields(c, f.rest, elmCount, i + 1, Append(o, f.v))

DecodeTuple(c, b) ==
    LET buf0 == PopBytes(b)
        elmCount == PopUint32(buf0.v)
    IN  IF ~buf0.ok \/ ~elmCount.ok THEN Fail
        ELSE IF Int32Of(elmCount.v) < 0 THEN Fail
        ELSE LET o == DecodeTupleFields(c, elmCount.rest, Int32Of(elmCount.v), 0, <<>>)
             IN  IF ~o.ok THEN Fail ELSE Ok(V("Tuple", o.v), buf0.rest)

RECURSIVE DecodeNamedTupleFields(_, _, _, _, _)
DecodeNamedTupleFields(c, b, elmCount, i, o) ==
    IF i >= elmCount THEN Ok(o, b)
    ELSE LET reserved == PopUint32(b)
         IN  IF ~reserved.ok THEN Fail
             ELSE IF i + 1 > Len(c.fields) THEN Fail
             ELSE LET f == Decode(c.fields[i + 1].codec, reserved.rest)
                  IN  IF ~f.ok THEN Fail
                      ELSE DecodeNamedTupleFields(c, f.rest, elmCount, i + 1,
                                                  (c.fields[i + 1].name :> f.v) @@ o)

DecodeNamedTuple(c, b) ==
    LET buf0 == PopBytes(b)
        elmCount == PopUint32(buf0.v)
    IN  IF ~buf0.ok \/ ~elmCount.ok THEN Fail
        ELSE LET o == DecodeNamedTupleFields(c, elmCount.rest, Int32Of(elmCount.v), 0, <<>>)
             IN  IF ~o.ok THEN Fail ELSE Ok(V("NamedTuple", o.v), buf0.rest)

Decode(c, b) ==
    CASE c.kind = "UUID" -> DecodeUUID(b)
      [] c.kind = "String" -> DecodeString(b)
      [] c.kind = "Bytes" -> DecodeBytes(b)
      [] c.kind = "Int16" -> DecodeInt16(b)
      [] c.kind = "Int32" -> DecodeInt32(b)
      [] c.kind = "Int64" -> DecodeInt64(b)
      [] c.kind = "Float32" -> DecodeFloat32(b)
      [] c.kind = "Float64" -> DecodeFloat64(b)
      [] c.kind = "Bool" -> DecodeBool(b)
      [] c.kind = "DateTime" -> DecodeDateTime(b)
      [] c.kind = "Duration" -> DecodeDuration(b)
      [] c.kind = "JSON" -> DecodeJSON(b)
      [] c.kind = "Set" -> DecodeSet(c, b)
      [] c.kind = "Object" -> DecodeObject(c, b)
      [] c.kind = "Tuple" -> DecodeTuple(c, b)
      [] c.kind = "NamedTuple" -> DecodeNamedTuple(c, b)
      [] c.kind = "Array" -> DecodeArray(c, b)

(***************************************************************************)
(* Pop: one action per arm of the switch, each a whole iteration of the    *)
(* loop (read the tag and the id, build the codec, store it under the id,  *)
(* append it to the list).  A panic unwinds Pop: the caller receives       *)
(* nothing, and the locals (codecs, lookup) are lost; the model keeps them *)
(* as they were when the iteration began.                                  *)
(***************************************************************************)
NoRegistry == [returned |-> FALSE, lookup |-> <<>>]

PopIteration(b, r) ==
    IF ~r.ok
    THEN /\ pc' = "panic"
         /\ UNCHANGED <<bts, codecs, lookup, ret>>
    ELSE /\ bts' = r.rest
         /\ lookup' = (r.id :> r.v) @@ lookup
         /\ codecs' = Append(codecs, r.v)
         /\ UNCHANGED <<pc, ret>>

\* the tag and the id of the next descriptor: [ok, tag, id, rest]
PopHeader(b) ==
    LET descriptorType == PopUint8(b)
        id == PopUUID(descriptorType.rest)
    IN  [ok |-> descriptorType.ok /\ id.ok, tag |-> descriptorType.v,
         id |-> id.v, rest |-> id.rest]

\* the codec a constructor returned, with the id it is stored under
Built(h, c) == [ok |-> h.ok /\ c.ok, v |-> c.v, rest |-> c.rest, id |-> h.id]

AtDescriptor(tag) ==
    /\ pc = "loop"
    /\ Len(bts) > 0
    /\ PopHeader(bts).tag = tag

PopSetCase ==
    /\ AtDescriptor(setType)
    /\ LET h == PopHeader(bts)
       IN  PopIteration(bts, Built(h, popSetCodec(h.rest, h.id, codecs)))
    /\ UNCHANGED <<descs, sessVars, optVars>>

PopObjectCase ==
    /\ AtDescriptor(objectType)
    /\ LET h == PopHeader(bts)
       IN  PopIteration(bts, Built(h, popObjectCodec(h.rest, h.id, codecs)))
    /\ UNCHANGED <<descs, sessVars, optVars>>

PopBaseScalarCase ==
    /\ AtDescriptor(baseScalarType)
    /\ LET h == PopHeader(bts)
           c == getBaseScalarCodec(h.id)
       IN  PopIteration(bts, Built(h, [c EXCEPT !.rest = h.rest]))
    /\ UNCHANGED <<descs, sessVars, optVars>>

PopTupleCase ==
    /\ AtDescriptor(tupleType)
    /\ LET h == PopHeader(bts)
       IN  PopIteration(bts, Built(h, popTupleCodec(h.rest, h.id, codecs)))
    /\ UNCHANGED <<descs, sessVars, optVars>>

PopNamedTupleCase ==
    /\ AtDescriptor(namedTupleType)
    /\ LET h == PopHeader(bts)
       IN  PopIteration(bts, Built(h, popNamedTupleCodec(h.rest, h.id, codecs)))
    /\ UNCHANGED <<descs, sessVars, optVars>>

PopArrayCase ==
    /\ AtDescriptor(arrayType)
    /\ LET h == PopHeader(bts)
       IN  PopIteration(bts, Built(h, popArrayCodec(h.rest, h.id, codecs)))
    /\ UNCHANGED <<descs, sessVars, optVars>>

KnownTags == {setType, objectType, baseScalarType, tupleType, namedTupleType, arrayType}

\* a faulty default case: the descriptor of an unknown type is skipped
PopDefaultSkip ==
    /\ pc = "loop"
    /\ Len(bts) > 0
    /\ PopHeader(bts).tag \notin KnownTags
    /\ IF PopHeader(bts).ok
       THEN bts' = PopHeader(bts).rest /\ pc' = pc
       ELSE pc' = "panic" /\ bts' = bts
    /\ UNCHANGED <<codecs, lookup, ret, descs, sessVars, optVars>>

\* default: panic("unknown descriptor type ...")
PopDefaultCase ==
    /\ pc = "loop"
    /\ Len(bts) > 0
    /\ PopHeader(bts).tag \notin KnownTags
    /\ pc' = "panic"
    /\ UNCHANGED <<bts, codecs, lookup, ret, descs, sessVars, optVars>>

\* len(*bts) = 0: return lookup
PopReturn ==
    /\ pc = "loop"
    /\ Len(bts) = 0
    /\ pc' = "done"
    /\ ret' = [returned |-> TRUE, lookup |-> lookup]
    /\ UNCHANGED <<bts, codecs, lookup, descs, sessVars, optVars>>

(***************************************************************************)
(* The descriptor streams given to Pop.  A descriptor is                   *)
(* [tag, id, child, dims, fields]; Wire writes it as the server does.      *)
(***************************************************************************)
Desc(tag, id, child, dims, fields) ==
    [tag |-> tag, id |-> id, child |-> child, dims |-> dims, fields |-> fields]

RECURSIVE Flatten(_)
Flatten(ss) == IF ss = <<>> THEN <<>> ELSE Head(ss) \o Flatten(Tail(ss))

WireString(s) == U32(Len(s)) \o s

WireField(tag, f) ==
    CASE tag = objectType -> (<<f.flags>> \o WireString(f.name)) \o U16(f.index)
      [] tag = tupleType -> U16(f.index)
      [] tag = namedTupleType -> WireString(f.name) \o U16(f.index)

WireDesc(d) ==
    (<<d.tag>> \o d.id) \o
    (CASE d.tag = setType -> U16(d.child)
       [] d.tag = arrayType ->
            (U16(d.child) \o U16(Len(d.dims))) \o Flatten(d.dims)
       [] d.tag \in {objectType, tupleType, namedTupleType} ->
            U16(Len(d.fields))
                \o Flatten([j \in 1..Len(d.fields) |-> WireField(d.tag, d.fields[j])])
       [] OTHER -> <<>>)

Wire(ds) == Flatten([k \in 1..Len(ds) |-> WireDesc(ds[k])])

\* the id of the composite descriptor at position k (0-based)
CompositeId(k) == Zeros14 \o <<2, k>>
\* the name of field j: "a", "b", ...
FieldName(j) == <<96 + j>>

\* n fields: the first refers to index r, the others to index 0; the flag
\* bytes are f, f + 1, ...
Fields(n, r, f) ==
    [j \in 1..n |-> [flags |-> f + j - 1, name |-> FieldName(j),
                     index |-> IF j = 1 THEN r ELSE 0]]

\* the indices a descriptor at position k refers to: backward, the one
\* before it; forward, its own and the one after it
BackRefs(k) == {r \in {k - 1} : r >= 0}
FwdRefs(k) == {k, k + 1}

Composites(k, refs) ==
    {Desc(setType, CompositeId(k), r, <<>>, <<>>) : r \in refs}
    \cup {Desc(arrayType, CompositeId(k), r, [i \in 1..n |-> U32(3)], <<>>) :
            r \in refs, n \in {0, MaxDims}}
    \cup {Desc(tupleType, CompositeId(k), 0, <<>>, Fields(MaxFields, r, 0)) :
            r \in refs}
    \cup {Desc(namedTupleType, CompositeId(k), 0, <<>>, Fields(MaxFields, r, 0)) :
            r \in refs}
    \cup {Desc(objectType, CompositeId(k), 0, <<>>, Fields(MaxFields, r, f)) :
            r \in refs, f \in {1, 5}}

\* the descriptors Pop accepts at position k
GoodAt(k) ==
    {Desc(baseScalarType, BaseId(x), 0, <<>>, <<>>) : x \in {0, 1, 5}}
    \cup {Desc(t, CompositeId(k), 0, <<>>, <<>>) :
            t \in {objectType, tupleType, namedTupleType}}
    \cup Composites(k, BackRefs(k))

\* the descriptors Pop rejects at position k: an unknown tag, an unknown or
\* unimplemented base scalar, a forward reference
BadAt(k) ==
    {Desc(t, CompositeId(k), 0, <<>>, <<>>) : t \in {scalarType, enumType, 127}}
    \cup {Desc(baseScalarType, BaseId(x), 0, <<>>, <<>>) : x \in {8, 17}}
    \cup Composites(k, FwdRefs(k))

RECURSIVE SeqOf(_)
\* the elements of a set, one after the other
SeqOf(S) ==
    IF S = {} THEN <<>>
    ELSE LET d == CHOOSE e \in S : TRUE IN <<d>> \o SeqOf(S \ {d})

\* GoodChoices[k]: the descriptors Pop accepts as the k-th of a stream
GoodChoices == [k \in 1..MaxDescs |-> SeqOf(GoodAt(k - 1))]

\* what may follow a rejected descriptor (Pop never reads it)
Trailers == {<<>>, <<Desc(baseScalarType, BaseId(1), 0, <<>>, <<>>)>>}

\* how a stream of at most MaxDescs descriptors goes on after n accepted
\* ones: it ends, or a rejected descriptor follows
Tails(n) ==
    {<<>>} \cup {<<d>> \o t : d \in BadAt(n),
                   t \in {u \in Trailers : n + 1 + Len(u) <= MaxDescs}}

(***************************************************************************)
(* The optional types of package edgedbtypes.  A []byte is nil or holds    *)
(* bytes: [isNil, b].                                                      *)
(***************************************************************************)
NilBytes == [isNil |-> TRUE, b |-> <<>>]
SomeBytes(b) == [isNil |-> FALSE, b |-> b]

\* the zero values of the two types
ZeroOptionalBool == [val |-> FALSE, present |-> FALSE]
ZeroOptionalBytes == [val |-> NilBytes, isSet |-> FALSE]

\* Get: the value and whether it is present
OptionalBoolGet(o) == [val |-> o.val, ok |-> o.present]

OptionalBoolSet(o, v) == [val |-> v, present |-> TRUE]

OptionalBoolUnset(o) == [val |-> FALSE, present |-> FALSE]

OptionalBytesGet(o) == [val |-> o.val, ok |-> o.isSet]

OptionalBytesUnset(o) == [val |-> NilBytes, isSet |-> FALSE]

\* a faulty Set: nil is stored as a value
OptionalBytesSetNil(o, v) == [val |-> v, isSet |-> TRUE]

OptionalBytesSet(o, v) ==
    IF v.isNil THEN OptionalBytesUnset(o)
    ELSE [val |-> v, isSet |-> TRUE]

NoCall == [op |-> "none", arg |-> FALSE]
NoBytesCall == [op |-> "none", arg |-> NilBytes]
NoGet == [of |-> "none", bool |-> FALSE, bytes |-> NilBytes, ok |-> FALSE]

\* no optional value is in use
OptIdle ==
    /\ optBool = ZeroOptionalBool
    /\ optBytes = ZeroOptionalBytes
    /\ boolCall = NoCall
    /\ bytesCall = NoBytesCall
    /\ got = NoGet

SessIdle ==
    /\ codec = [kind |-> "none"]
    /\ val = Nil
    /\ pre = <<>>
    /\ buf = <<>>
    /\ out = Nil
    /\ st = "idle"
    /\ objBuf = <<>>
    /\ objN = 0
    /\ objI = 0
    /\ objOut = <<>>

InitPop ==
    /\ \E n \in 0..MaxDescs :
        \E pick \in [1..n -> 1..Len(GoodChoices[MaxDescs])] :
            /\ \A k \in 1..n : pick[k] <= Len(GoodChoices[k])
            /\ \E tail \in Tails(n) :
                descs = [k \in 1..n |-> GoodChoices[k][pick[k]]] \o tail
    /\ bts = Wire(descs)
    /\ codecs = <<>>
    /\ lookup = <<>>
    /\ pc = "loop"
    /\ ret = NoRegistry
    /\ SessIdle
    /\ OptIdle

NextPop ==
    \/ PopSetCase
    \/ PopObjectCase
    \/ PopBaseScalarCase
    \/ PopTupleCase
    \/ PopNamedTupleCase
    \/ PopArrayCase
    \/ PopDefaultCase
    \/ PopReturn

SpecPop == InitPop /\ [][NextPop]_vars

(***************************************************************************)
(* An encode/decode session: a caller holds a codec, calls Encode on an    *)
(* output buffer (st "start" -> "encoded" or "encodePanic") and, when the  *)
(* buffer held nothing before, calls Decode on the bytes written; or it    *)
(* holds bytes received from the server (st "wire") and calls Decode       *)
(* (-> "decoded" or "decodePanic").  Object.Decode, when called by the     *)
(* caller, runs one loop iteration per action.                             *)
(***************************************************************************)
CallEncode ==
    /\ st = "start"
    /\ LET e == Encode(codec, buf, val)
       IN  /\ buf' = e.buf
           /\ st' = IF e.ok THEN "encoded" ELSE "encodePanic"
    /\ UNCHANGED <<codec, val, pre, out, objBuf, objN, objI, objOut, popVars, optVars>>

CallDecode ==
    /\ st \in {"encoded", "wire"}
    /\ st = "encoded" => pre = <<>>
    /\ codec.kind # "Object"
    /\ LET d == Decode(codec, buf)
       IN  IF d.ok
           THEN /\ out' = d.v
                /\ buf' = d.rest
                /\ st' = "decoded"
           ELSE /\ st' = "decodePanic"
                /\ UNCHANGED <<out, buf>>
    /\ UNCHANGED <<codec, val, pre, objBuf, objN, objI, objOut, popVars, optVars>>

\* Object.Decode up to the loop: the envelope and the element count
ObjectDecodeBegin ==
    /\ st = "wire"
    /\ codec.kind = "Object"
    /\ LET buf0 == PopBytes(buf)
           elmCount == PopUint32(buf0.v)
       IN  IF ~buf0.ok \/ ~elmCount.ok
           THEN /\ st' = "decodePanic"
                /\ UNCHANGED <<buf, objBuf, objN, objI, objOut>>
           ELSE /\ buf' = buf0.rest
                /\ objBuf' = elmCount.rest
                /\ objN' = Int32Of(elmCount.v)
                /\ objI' = 0
                /\ objOut' = <<>>
                /\ st' = "objLoop"
    /\ UNCHANGED <<codec, val, pre, out, popVars, optVars>>

\* the length the next field announces is -1
AtMissingField(b) ==
    LET reserved == PopUint32(b)
        length == PeekUint32(reserved.rest)
    IN  reserved.ok /\ length.ok /\ Int32Of(length.v) = 0 - 1

ObjectDecodeIteration ==
    IF objI + 1 > Len(codec.fields)
    THEN /\ st' = "decodePanic"
         /\ UNCHANGED <<objBuf, objI, objOut>>
    ELSE LET f == DecodeObjectField(codec.fields[objI + 1], objBuf)
         IN  IF ~f.ok
             THEN /\ st' = "decodePanic"
                  /\ UNCHANGED <<objBuf, objI, objOut>>
             ELSE /\ objBuf' = f.rest
                  /\ objOut' = (codec.fields[objI + 1].name :> f.v) @@ objOut
                  /\ objI' = objI + 1
                  /\ UNCHANGED st

\* an iteration of the loop of Object.Decode, case -1
ObjectDecodeMissing ==
    /\ st = "objLoop"
    /\ objI < objN
    /\ AtMissingField(objBuf)
    /\ ObjectDecodeIteration
    /\ UNCHANGED <<codec, val, pre, buf, out, objN, popVars, optVars>>

\* an iteration of the loop of Object.Decode, default case
ObjectDecodeValue ==
    /\ st = "objLoop"
    /\ objI < objN
    /\ ~AtMissingField(objBuf)
    /\ ObjectDecodeIteration
    /\ UNCHANGED <<codec, val, pre, buf, out, objN, popVars, optVars>>

ObjectDecodeReturn ==
    /\ st = "objLoop"
    /\ objI >= objN
    /\ out' = V("Object", objOut)
    /\ st' = "decoded"
    /\ UNCHANGED <<codec, val, pre, buf, objBuf, objN, objI, objOut, popVars, optVars>>

(***************************************************************************)
(* Claims about Pop.                                                       *)
(***************************************************************************)
Composite(d) == d.tag \in {setType, objectType, tupleType, namedTupleType, arrayType}

\* the indices descriptor d refers to
RefsOf(d) ==
    IF d.tag \in {setType, arrayType} THEN {d.child}
    ELSE IF d.tag \in {objectType, tupleType, namedTupleType}
    THEN {d.fields[j].index : j \in 1..Len(d.fields)}
    ELSE {}

SupportedScalars == {0, 1, 2, 3, 4, 5, 6, 7, 9, 10, 14, 15}

\* a stream Pop is specified for: known tags, implemented base scalars,
\* backward references only, pairwise distinct ids
WellFormed(ds) ==
    /\ \A k \in 1..Len(ds) :
        /\ ds[k].tag \in KnownTags
        /\ ds[k].tag = baseScalarType => \E x \in SupportedScalars : ds[k].id = BaseId(x)
        /\ \A r \in RefsOf(ds[k]) : r < k - 1
    /\ \A k, l \in 1..Len(ds) : k # l => ds[k].id # ds[l].id

ScalarKind(id) ==
    LET x == id[16]
    IN  CASE x = 0 -> "UUID" [] x = 1 -> "String" [] x = 2 -> "Bytes"
          [] x = 3 -> "Int16" [] x = 4 -> "Int32" [] x = 5 -> "Int64"
          [] x = 6 -> "Float32" [] x = 7 -> "Float64" [] x = 9 -> "Bool"
          [] x = 10 -> "DateTime" [] x = 14 -> "Duration" [] x = 15 -> "JSON"

RECURSIVE CodecOf(_, _)
\* the codec descriptor k of a well-formed stream describes
CodecOf(ds, k) ==
    LET d == ds[k]
    IN  CASE d.tag = baseScalarType -> [kind |-> ScalarKind(d.id)]
          [] d.tag = setType -> [kind |-> "Set", child |-> CodecOf(ds, d.child + 1)]
          [] d.tag = arrayType -> [kind |-> "Array", child |-> CodecOf(ds, d.child + 1)]
          [] d.tag = tupleType ->
               [kind |-> "Tuple",
                fields |-> [j \in 1..Len(d.fields) |-> CodecOf(ds, d.fields[j].index + 1)]]
          [] d.tag = namedTupleType ->
               [kind |-> "NamedTuple",
                fields |-> [j \in 1..Len(d.fields) |->
                    [name |-> d.fields[j].name,
                     codec |-> CodecOf(ds, d.fields[j].index + 1)]]]
          [] d.tag = objectType ->
               [kind |-> "Object",
                fields |-> [j \in 1..Len(d.fields) |->
                    [isImplicit |-> d.fields[j].flags \in {1, 3, 5, 7},
                     isLinkProperty |-> d.fields[j].flags \in {2, 3, 6, 7},
                     isLink |-> d.fields[j].flags \in {4, 5, 6, 7},
                     name |-> d.fields[j].name,
                     codec |-> CodecOf(ds, d.fields[j].index + 1)]]]

\* C1: on a well-formed stream Pop never fails; after i iterations it has
\* read exactly the first i descriptors, and codec i is the one descriptor i
\* describes, its children the codecs of the descriptors it refers to; it
\* returns when no byte is left, and the registry returned has one entry per
\* descriptor, the entry under descriptor i's id being codec i.
C1_PopBuildsRegistry ==
    WellFormed(descs) =>
        /\ pc # "panic"
        /\ Len(codecs) <= Len(descs)
        /\ bts = Wire(SubSeq(descs, Len(codecs) + 1, Len(descs)))
        /\ \A i \in 1..Len(codecs) :
            /\ codecs[i] = CodecOf(descs, i)
            /\ lookup[descs[i].id] = codecs[i]
        /\ pc = "loop" => ret = NoRegistry
        /\ pc = "done" =>
            /\ Len(codecs) = Len(descs)
            /\ bts = <<>>
            /\ ret.returned
            /\ Cardinality(DOMAIN ret.lookup) = Len(descs)
            /\ \A i \in 1..Len(descs) :
                ret.lookup[descs[i].id] = CodecOf(descs, i)

\* Pop returned the registry of three descriptors: a scalar, an array of
\* it, and an object with a field of that array
C1_Witness ==
    /\ pc = "done"
    /\ WellFormed(descs)
    /\ Len(descs) = 3
    /\ descs[2].tag = arrayType
    /\ Len(descs[2].dims) = 1
    /\ descs[3].tag = objectType
    /\ Len(descs[3].fields) = 2
    /\ descs[3].fields[1].index = 1
    /\ ret.lookup[descs[3].id].fields[1].codec.child = [kind |-> "Int64"]

HasUnknownTag(ds) == \E k \in 1..Len(ds) : ds[k].tag \notin KnownTags

\* C2: with an unknown tag anywhere in the stream Pop never returns: the
\* caller holds no registry, Pop is never at its return with the stream
\* read to its end, and so it can only end in a panic.
C2_UnknownTagRejected ==
    HasUnknownTag(descs) =>
        /\ pc \in {"loop", "panic"}
        /\ ret = NoRegistry
        /\ pc = "loop" => Len(bts) > 0

\* Pop panicked on tag 0x7F after it had built two codecs
C2_Witness ==
    /\ pc = "panic"
    /\ Len(descs) = 3
    /\ descs[3].tag = 127
    /\ Len(codecs) = 2
    /\ ret = NoRegistry

HasForwardRef(ds) ==
    \E k \in 1..Len(ds) : Composite(ds[k]) /\ \E r \in RefsOf(ds[k]) : r >= k - 1

\* the codecs a codec holds
ChildrenOf(c) ==
    CASE c.kind \in {"Set", "Array"} -> {c.child}
      [] c.kind = "Tuple" -> {c.fields[j] : j \in 1..Len(c.fields)}
      [] c.kind \in {"Object", "NamedTuple"} -> {c.fields[j].codec : j \in 1..Len(c.fields)}
      [] OTHER -> {}

\* C3: with a forward or self reference in the stream Pop never returns a
\* registry, and in every state each child of a codec of the list is a
\* codec at an earlier position of the list.
C3_ForwardReferenceRejected ==
    /\ HasForwardRef(descs) =>
        /\ pc \in {"loop", "panic"}
        /\ ret = NoRegistry
        /\ pc = "loop" => Len(bts) > 0
    /\ \A i \in 1..Len(codecs) :
        \A c \in ChildrenOf(codecs[i]) : \E j \in 1..(i - 1) : codecs[j] = c

\* Pop panicked on a tuple at position 2 that refers to index 2
C3_Witness ==
    /\ pc = "panic"
    /\ Len(descs) = 3
    /\ Len(codecs) = 2
    /\ descs[3].tag = tupleType
    /\ descs[3].fields[1].index = 2

(***************************************************************************)
(* The sessions checked: the codecs, the arguments and the wire bytes.     *)
(***************************************************************************)
MaxElems == 4       \* elements of an array argument
MaxObjFields == 3   \* fields of a decoded object
MaxDepth == 3       \* arrays within arrays

MaxInt64 == <<127, 255, 255, 255, 255, 255, 255, 255>>
MinInt64 == <<128, 0, 0, 0, 0, 0, 0, 0>>

ScalarCodec(x) == getBaseScalarCodec(BaseId(x)).v
SetOf(c) == [kind |-> "Set", child |-> c]
ArrayOf(c) == [kind |-> "Array", child |-> c]
TupleOf(cs) == [kind |-> "Tuple", fields |-> cs]
NamedTupleOf(cs) ==
    [kind |-> "NamedTuple",
     fields |-> [j \in 1..Len(cs) |-> [name |-> FieldName(j), codec |-> cs[j]]]]
ObjectOf(cs) ==
    [kind |-> "Object",
     fields |-> [j \in 1..Len(cs) |->
        [isImplicit |-> FALSE, isLinkProperty |-> FALSE, isLink |-> FALSE,
         name |-> FieldName(j), codec |-> cs[j]]]]

\* the output buffers Encode is called on
Prefixes == {<<>>, <<170, 187>>}

UUIDValues == {[i \in 1..16 |-> 0], [i \in 1..16 |-> 16 * i - 1]}
StringValues == {<<>>, <<104, 105>>}
BytesValues == {<<>>, <<0, 255>>}
Int16Values == {0, 1, 0 - 1, 32767, 0 - 32768}
Int32Values == {0, 1, 0 - 1, 2147483647, 0 - 2147483647 - 1}
Int64Values == {U64(0), U64(1), U64(0 - 1), MaxInt64, MinInt64}
\* 0, 1, -1, the largest finite, the smallest subnormal, a NaN
Float32Values ==
    {<<0, 0, 0, 0>>, <<63, 128, 0, 0>>, <<191, 128, 0, 0>>, <<127, 127, 255, 255>>,
     <<0, 0, 0, 1>>, <<127, 192, 0, 0>>}
Float64Values ==
    {F64(0), F64(1), <<191, 240, 0, 0, 0, 0, 0, 0>>,
     <<127, 239, 255, 255, 255, 255, 255, 255>>, <<0, 0, 0, 0, 0, 0, 0, 1>>,
     <<127, 248, 0, 0, 0, 0, 0, 0>>}
\* 2000-01-01T00:00:00Z and instants around it, the Unix epoch, the zero
\* Time (year 1), instants with nanoseconds below the microsecond, the
\* first and the last second of int64
TimeValues ==
    {[sec |-> U64(946684800), nsec |-> 0],
     [sec |-> U64(946684799), nsec |-> 500000000],
     [sec |-> U64(946684801), nsec |-> 1000],
     [sec |-> U64(0), nsec |-> 0],
     [sec |-> WMul(U64(0 - 621355968), 100), nsec |-> 0],
     [sec |-> U64(946684800), nsec |-> 1],
     [sec |-> U64(946684799), nsec |-> 999999999],
     [sec |-> MaxInt64, nsec |-> 0],
     [sec |-> MinInt64, nsec |-> 0]}
\* nanoseconds
DurationValues ==
    {U64(0), U64(1000), U64(0 - 1000), U64(1), U64(0 - 1), U64(1500),
     MaxInt64, MinInt64, WMul(WDiv(MaxInt64, 1000), 1000),
     WMul(WDiv(MinInt64, 1000), 1000)}

\* an argument of the type codec kind k takes
DefaultArg(k) ==
    CASE k = "UUID" -> V("UUID", [i \in 1..16 |-> i])
      [] k = "String" -> V("string", <<104, 105>>)
      [] k = "Bytes" -> V("bytes", <<0, 255>>)
      [] k = "Int16" -> V("int16", 0 - 2)
      [] k = "Int32" -> V("int32", 0 - 2)
      [] k = "Int64" -> V("int64", U64(0 - 2))
      [] k = "Float32" -> V("float32", <<63, 128, 0, 0>>)
      [] k = "Float64" -> V("float64", F64(1))
      [] k = "Bool" -> V("bool", TRUE)
      [] k = "DateTime" -> V("Time", [sec |-> U64(946684801), nsec |-> 0])
      [] k = "Duration" -> V("Duration", U64(1000))
      [] k = "JSON" -> V("string", <<97, 98>>)
      [] k \in {"Tuple", "Array", "Set"} -> V("slice", <<>>)
      [] k \in {"NamedTuple", "Object"} -> V("map", <<>>)

ScalarKinds ==
    {"UUID", "String", "Bytes", "Int16", "Int32", "Int64", "Float32", "Float64",
     "Bool", "DateTime", "Duration", "JSON"}

\* the codecs used as the child of a composite
ChildCodecs ==
    {[kind |-> k] : k \in ScalarKinds}
    \cup {TupleOf(<<>>), TupleOf(<<[kind |-> "Int16"]>>)}
    \cup {NamedTupleOf(<<>>)}
    \cup {ArrayOf([kind |-> "Int16"]), SetOf([kind |-> "String"])}
    \cup {ObjectOf(<<[kind |-> "String"]>>)}

PopIdle ==
    /\ descs = <<>>
    /\ bts = <<>>
    /\ codecs = <<>>
    /\ lookup = <<>>
    /\ pc = "idle"
    /\ ret = NoRegistry

EncodeSession(c, x, p) ==
    /\ codec = c
    /\ val = x
    /\ pre = p
    /\ buf = p
    /\ out = Nil
    /\ st = "start"
    /\ objBuf = <<>>
    /\ objN = 0
    /\ objI = 0
    /\ objOut = <<>>

\* ghost is what the server encoded
WireSession(c, ghost, b) ==
    /\ codec = c
    /\ val = ghost
    /\ pre = <<>>
    /\ buf = b
    /\ out = Nil
    /\ st = "wire"
    /\ objBuf = <<>>
    /\ objN = 0
    /\ objI = 0
    /\ objOut = <<>>

\* a scalar codec and an argument of its type
ScalarSessions ==
    \E p \in Prefixes :
        \/ \E x \in UUIDValues : EncodeSession(ScalarCodec(0), V("UUID", x), p)
        \/ \E x \in StringValues : EncodeSession(ScalarCodec(1), V("string", x), p)
        \/ \E x \in BytesValues : EncodeSession(ScalarCodec(2), V("bytes", x), p)
        \/ \E x \in Int16Values : EncodeSession(ScalarCodec(3), V("int16", x), p)
        \/ \E x \in Int32Values : EncodeSession(ScalarCodec(4), V("int32", x), p)
        \/ \E x \in Int64Values : EncodeSession(ScalarCodec(5), V("int64", x), p)
        \/ \E x \in Float32Values : EncodeSession(ScalarCodec(6), V("float32", x), p)
        \/ \E x \in Float64Values : EncodeSession(ScalarCodec(7), V("float64", x), p)
        \/ \E x \in BOOLEAN : EncodeSession(ScalarCodec(9), V("bool", x), p)
        \/ \E x \in TimeValues : EncodeSession(ScalarCodec(10), V("Time", x), p)
        \/ \E x \in DurationValues : EncodeSession(ScalarCodec(14), V("Duration", x), p)
        \/ EncodeSession(ScalarCodec(15), Nil, p)
        \/ \E x \in BOOLEAN : EncodeSession(ScalarCodec(15), V("bool", x), p)
        \/ \E x \in {<<>>, <<97, 98>>} : EncodeSession(ScalarCodec(15), V("string", x), p)
        \/ \E n \in 0..3 : EncodeSession(ScalarCodec(15), V("float64", F64(n)), p)
        \/ \E n \in 0..3 : EncodeSession(ScalarCodec(15), V("int", n), p)

\* any codec and an argument of another type: nil, a string where none is
\* taken, a slice, a map
MistypedSessions ==
    \E p \in Prefixes, c \in ChildCodecs \cup {TupleOf(<<[kind |-> "String"], [kind |-> "Int16"]>>)} :
        \/ c.kind # "JSON" /\ EncodeSession(c, Nil, p)
        \/ c.kind \notin {"String", "JSON"} /\ EncodeSession(c, V("string", <<104, 105>>), p)
        \/ c.kind \in {"Set", "Object", "NamedTuple"} /\ EncodeSession(c, V("slice", <<>>), p)
        \/ c.kind \in {"Set", "Object", "Tuple", "Array"} /\ EncodeSession(c, V("map", <<>>), p)

\* an array of a scalar and 0..MaxElems elements
ArraySessions ==
    \E p \in Prefixes, n \in 0..MaxElems :
        \/ \E xs \in [1..n -> {0 - 2, 7}] :
            EncodeSession(ArrayOf(ScalarCodec(3)), V("slice", [j \in 1..n |-> V("int16", xs[j])]), p)
        \/ \E xs \in [1..n -> {<<>>, <<104, 105>>}] :
            EncodeSession(ArrayOf(ScalarCodec(1)), V("slice", [j \in 1..n |-> V("string", xs[j])]), p)

\* a tuple of 0..2 fields and a slice of 0..3 elements, each of the type
\* its position takes (the third is an int16)
TupleSessions ==
    \E p \in Prefixes, c1 \in ChildCodecs, c2 \in {[kind |-> "Int16"], [kind |-> "JSON"]},
       n \in 0..2, m \in 0..3 :
        EncodeSession(TupleOf(SubSeq(<<c1, c2>>, 1, n)),
                      V("slice", SubSeq(<<DefaultArg(c1.kind), DefaultArg(c2.kind),
                                          V("int16", 9)>>, 1, m)),
                      p)

\* a named tuple of 0..2 fields and a map with some of their names, each
\* with a value of the type the field takes
NamedTupleSessions ==
    \E p \in Prefixes, c1 \in ChildCodecs, c2 \in {[kind |-> "Int16"], [kind |-> "JSON"]},
       n \in 0..2, keys \in SUBSET {1, 2} :
        EncodeSession(NamedTupleOf(SubSeq(<<c1, c2>>, 1, n)),
                      V("map", [nm \in {FieldName(j) : j \in keys} |->
                                    IF nm = FieldName(1) THEN DefaultArg(c1.kind)
                                    ELSE DefaultArg(c2.kind)]),
                      p)

\* a set or an object, alone or as the element of an array
UnsupportedSessions ==
    \E p \in Prefixes,
       c \in {SetOf([kind |-> "String"]), ObjectOf(<<[kind |-> "String"]>>), ObjectOf(<<>>)},
       n \in 0..2 :
        \/ EncodeSession(c, V("slice", [j \in 1..n |-> V("string", <<104, 105>>)]), p)
        \/ EncodeSession(ArrayOf(c), V("slice", [j \in 1..n |-> DefaultArg(c.kind)]), p)

\* a bool on the wire: the length 1 and one byte
BoolSessions ==
    \E b \in 0..255, t \in {<<>>, <<1, 2>>} :
        WireSession(ScalarCodec(9), V("byte", b), (U32(1) \o <<b>>) \o t)

\* what the server sends for a field of an object: the field's codec,
\* whether the field is there, its bytes and the value they stand for
StringSamples ==
    <<[codec |-> [kind |-> "String"], present |-> FALSE, bytes |-> <<>>,
       value |-> V("string", <<>>)],
      [codec |-> [kind |-> "String"], present |-> TRUE, bytes |-> <<0, 0, 0, 0>>,
       value |-> V("string", <<>>)],
      [codec |-> [kind |-> "String"], present |-> TRUE, bytes |-> <<0, 0, 0, 2, 104, 105>>,
       value |-> V("string", <<104, 105>>)]>>
Int16Samples ==
    <<[codec |-> [kind |-> "Int16"], present |-> FALSE, bytes |-> <<>>,
       value |-> V("int16", 0)],
      [codec |-> [kind |-> "Int16"], present |-> TRUE, bytes |-> <<0, 0, 0, 2, 255, 254>>,
       value |-> V("int16", 0 - 2)]>>
SetSamples ==
    <<[codec |-> SetOf([kind |-> "String"]), present |-> FALSE, bytes |-> <<>>,
       value |-> V("Set", <<>>)],
      [codec |-> SetOf([kind |-> "String"]), present |-> TRUE,
       bytes |-> <<0, 0, 0, 25, 0, 0, 0, 1, 0, 0, 0, 0, 0, 0, 0, 0,
                   0, 0, 0, 1, 0, 0, 0, 1, 0, 0, 0, 1, 97>>,
       value |-> V("Set", <<V("string", <<97>>)>>)]>>

FieldKinds == {"String", "Int16", "Set"}
SamplesOf(k) ==
    CASE k = "String" -> StringSamples
      [] k = "Int16" -> Int16Samples
      [] k = "Set" -> SetSamples

WireObjectField(f) == U32(0) \o (IF f.present THEN f.bytes ELSE <<255, 255, 255, 255>>)

WireObjectFields(fs) == Flatten([j \in 1..Len(fs) |-> WireObjectField(fs[j])])

WireObject(fs) ==
    LET body == U32(Len(fs)) \o WireObjectFields(fs)
    IN  U32(Len(body)) \o body

\* an object of 1..MaxObjFields fields on the wire, each there or missing,
\* and the bytes that follow it
ObjectSessions ==
    \E n \in 1..MaxObjFields, t \in {<<>>, <<1, 2>>} :
        \E ks \in [1..n -> FieldKinds] :
            \E pick \in [1..n -> 1..3] :
                /\ \A j \in 1..n : pick[j] <= Len(SamplesOf(ks[j]))
                /\ LET fs == [j \in 1..n |-> SamplesOf(ks[j])[pick[j]]]
                   IN  WireSession(ObjectOf([j \in 1..n |-> fs[j].codec]),
                                   [fields |-> fs, trailer |-> t],
                                   WireObject(fs) \o t)

RECURSIVE NestedArray(_)
\* an array of arrays ... of int16, d deep
NestedArray(d) ==
    IF d = 0 THEN [kind |-> "Int16"] ELSE ArrayOf(NestedArray(d - 1))

RECURSIVE NestedSlice(_, _)
\* an argument of NestedArray(d): n elements at every level
NestedSlice(d, n) ==
    IF d = 0 THEN V("int16", 7)
    ELSE V("slice", [j \in 1..n |-> NestedSlice(d - 1, n)])

\* codecs within codecs, with arguments they encode: arrays of arrays, an
\* array of tuples, a tuple of an array and a named tuple that holds a tuple
NestedSessions ==
    \E p \in Prefixes :
        \/ \E d \in 1..MaxDepth, n \in 0..2 :
            EncodeSession(NestedArray(d), NestedSlice(d, n), p)
        \/ \E n \in 0..MaxElems :
            EncodeSession(ArrayOf(TupleOf(<<[kind |-> "Int16"], [kind |-> "String"]>>)),
                          V("slice", [j \in 1..n |->
                              V("slice", <<V("int16", j), V("string", <<104, 105>>)>>)]),
                          p)
        \/ \E n \in 0..MaxElems, x \in Int16Values :
            EncodeSession(
                TupleOf(<<ArrayOf([kind |-> "Int16"]),
                          NamedTupleOf(<<[kind |-> "String"],
                                         TupleOf(<<[kind |-> "Int16"]>>)>>)>>),
                V("slice",
                  <<V("slice", [j \in 1..n |-> V("int16", x)]),
                    V("map", (FieldName(1) :> V("string", <<97>>))
                             @@ (FieldName(2) :> V("slice", <<V("int16", x)>>)))>>),
                p)

InitCodec ==
    /\ PopIdle
    /\ OptIdle
    /\ \/ ScalarSessions
       \/ MistypedSessions
       \/ ArraySessions
       \/ TupleSessions
       \/ NamedTupleSessions
       \/ UnsupportedSessions
       \/ BoolSessions
       \/ ObjectSessions
       \/ NestedSessions

NextCodec ==
    \/ CallEncode
    \/ CallDecode
    \/ ObjectDecodeBegin
    \/ ObjectDecodeMissing
    \/ ObjectDecodeValue
    \/ ObjectDecodeReturn

SpecCodec == InitCodec /\ [][NextCodec]_vars

(***************************************************************************)
(* Claims about Encode and Decode.                                         *)
(***************************************************************************)
SameValue(a, b) == a.t = b.t /\ a.v = b.v

\* the types of the arguments scalar codec kind k encodes
ArgTypes(k) ==
    CASE k = "UUID" -> {"UUID"} [] k = "String" -> {"string"} [] k = "Bytes" -> {"bytes"}
      [] k = "Int16" -> {"int16"} [] k = "Int32" -> {"int32"} [] k = "Int64" -> {"int64"}
      [] k = "Float32" -> {"float32"} [] k = "Float64" -> {"float64"}
      [] k = "Bool" -> {"bool"} [] k = "DateTime" -> {"Time"}
      [] k = "Duration" -> {"Duration"}
      [] k = "JSON" -> {"nil", "bool", "string", "float64", "int"}
      [] OTHER -> {}

\* the caller encoded a scalar into an empty buffer and may decode it
ScalarRoundTrip ==
    /\ codec.kind \in ScalarKinds
    /\ val.t \in ArgTypes(codec.kind)
    /\ pre = <<>>

\* C4 as stated: every value of every scalar kind is encoded, and decoding
\* the bytes yields the value and leaves no byte.
C4_ScalarRoundTripAnyValue ==
    ScalarRoundTrip =>
        /\ st \notin {"encodePanic", "decodePanic"}
        /\ st = "decoded" => SameValue(out, val) /\ buf = <<>>

\* the microseconds between 2000-01-01T00:00:00Z and t fit in an int64
FitsMicroseconds(t) ==
    LET seconds == WAdd(t.sec, U64(0 - 946684800))
        whole == WMul(seconds, 1000000)
        microseconds == WAdd(whole, U64(t.nsec \div 1000))
    IN  /\ IsNeg(t.sec) => IsNeg(seconds)
        /\ WDiv(whole, 1000000) = seconds
        /\ ~IsNeg(whole) => ~IsNeg(microseconds)

\* the values the wire format can carry: a Time or a Duration of whole
\* microseconds, the Time within the int64 microseconds around 2000-01-01;
\* for JSON the values Unmarshal produces
Representable(x) ==
    CASE x.t = "Time" -> x.v.nsec % 1000 = 0 /\ FitsMicroseconds(x.v)
      [] x.t = "Duration" -> WRem(x.v, 1000) = 0
      [] x.t = "int" -> FALSE
      [] OTHER -> TRUE

\* C4, amended: every value the wire format can carry is encoded, and
\* decoding the bytes yields the value (the same bits for a float, the same
\* instant for a Time) and leaves no byte.
C4_ScalarRoundTrip ==
    (ScalarRoundTrip /\ Representable(val)) =>
        /\ st \notin {"encodePanic", "decodePanic"}
        /\ st = "decoded" => SameValue(out, val) /\ buf = <<>>

\* a Time half a second before 2000-01-01 came back from its bytes
C4_Witness ==
    /\ st = "decoded"
    /\ codec.kind = "DateTime"
    /\ val.t = "Time"
    /\ val.v.sec = U64(946684799)
    /\ val.v.nsec = 500000000
    /\ SameValue(out, val)
    /\ buf = <<>>

\* the caller encoded a slice of scalars with an array codec into an empty
\* buffer and may decode it
ArrayRoundTrip ==
    /\ codec.kind = "Array"
    /\ codec.child.kind \in ScalarKinds
    /\ val.t = "slice"
    /\ \A i \in 1..Len(val.v) : val.v[i].t \in ArgTypes(codec.child.kind)
    /\ pre = <<>>

\* C5: an array of scalars is encoded, and decoding the bytes yields as
\* many elements, in the same order, with equal values.
C5_ArrayRoundTrip ==
    ArrayRoundTrip =>
        /\ st \notin {"encodePanic", "decodePanic"}
        /\ st = "decoded" =>
            /\ Len(out.v) = Len(val.v)
            /\ \A i \in 1..Len(val.v) : SameValue(out.v[i], val.v[i])

\* the caller decodes an object received from the server
ObjectFromWire ==
    /\ codec.kind = "Object"
    /\ st \in {"wire", "objLoop", "decoded", "decodePanic"}

\* what Object.Decode makes of a field the server sent
FieldValue(f) == IF f.present THEN f.value ELSE V("Set", <<>>)

\* C6: Object.Decode never fails on what the server sent; after i
\* iterations the bytes left are exactly those of the fields after the
\* i-th (8 bytes were read for a missing field: the reserved word and the
\* sentinel), out maps the name of each of the first i fields to the empty
\* Set when its length was -1 and to what its codec decodes from its bytes
\* otherwise; the object returned holds every field, and the bytes after
\* the envelope are left.
C6_MissingFieldSentinel ==
    ObjectFromWire =>
        /\ st # "decodePanic"
        /\ st = "objLoop" =>
            /\ objN = Len(val.fields)
            /\ objI <= objN
            /\ objBuf = WireObjectFields(SubSeq(val.fields, objI + 1, objN))
            /\ buf = val.trailer
            /\ DOMAIN objOut = {FieldName(j) : j \in 1..objI}
            /\ \A j \in 1..objI : SameValue(objOut[FieldName(j)], FieldValue(val.fields[j]))
        /\ st = "decoded" =>
            /\ buf = val.trailer
            /\ out.t = "Object"
            /\ DOMAIN out.v = {FieldName(j) : j \in 1..Len(val.fields)}
            /\ \A j \in 1..Len(val.fields) :
                /\ SameValue(out.v[FieldName(j)], FieldValue(val.fields[j]))
                /\ val.fields[j].present =>
                    SameValue(out.v[FieldName(j)],
                              Decode(codec.fields[j].codec, val.fields[j].bytes).v)

\* an object whose first field is missing and whose second is "hi" was
\* decoded
C6_Witness ==
    /\ ObjectFromWire
    /\ st = "decoded"
    /\ Len(val.fields) = 3
    /\ ~val.fields[1].present
    /\ val.fields[2].present
    /\ SameValue(out.v[FieldName(1)], V("Set", <<>>))
    /\ SameValue(out.v[FieldName(2)], V("string", <<104, 105>>))
    /\ buf = <<1, 2>>

\* the map given to NamedTuple.Encode lacks the name of a declared field
MissingKey ==
    /\ codec.kind = "NamedTuple"
    /\ val.t = "map"
    /\ \E j \in 1..Len(codec.fields) : codec.fields[j].name \notin DOMAIN val.v

\* C7: NamedTuple.Encode fails when the map lacks a declared field, and
\* writes nothing to the buffer.
C7_MissingKeyFails ==
    MissingKey => st \in {"start", "encodePanic"} /\ buf = pre

Unsupported(c) == c.kind \in {"Set", "Object"}

\* Encode of composite codec c on x reaches a set or an object codec: one
\* of its children is one, x holds an element for it, and the elements
\* before it are encoded
ReachesUnsupported(c, x) ==
    CASE c.kind = "Array" -> Unsupported(c.child) /\ x.t = "slice" /\ Len(x.v) >= 1
      [] c.kind = "Tuple" ->
            /\ x.t = "slice"
            /\ \E j \in 1..Len(c.fields) :
                /\ Unsupported(c.fields[j])
                /\ Len(x.v) >= j
                /\ \A i \in 1..(j - 1) : Encode(c.fields[i], <<>>, x.v[i]).ok
      [] c.kind = "NamedTuple" ->
            /\ x.t = "map"
            /\ \E j \in 1..Len(c.fields) :
                /\ Unsupported(c.fields[j].codec)
                /\ \A i \in 1..(j - 1) :
                    Encode(c.fields[i].codec, <<>>, MapGet(x.v, c.fields[i].name)).ok
      [] OTHER -> FALSE

\* C8: Encode of a set or object codec never returns and leaves the
\* buffer as it was, whatever the argument and the buffer; so does Encode
\* of an array, tuple or named tuple that reaches one.
C8_SetObjectEncodeFails ==
    /\ Unsupported(codec) =>
        /\ st # "encoded"
        /\ st \in {"start", "encodePanic"} => buf = pre
    /\ (st \in {"start", "encoded", "encodePanic"} /\ ReachesUnsupported(codec, val)) =>
        /\ st # "encoded"
        /\ buf = pre

\* Encode of an array of sets, on two elements and a buffer that held
\* bytes, panicked
C8_Witness ==
    /\ st = "encodePanic"
    /\ codec.kind = "Array"
    /\ codec.child.kind = "Set"
    /\ val.t = "slice"
    /\ Len(val.v) = 2
    /\ pre = <<170, 187>>
    /\ buf = pre

\* C9: Encode of a tuple codec without fields returns, whatever the
\* argument, and has appended the 8 bytes 00 00 00 04 00 00 00 00.
C9_EmptyTupleEncode ==
    (codec.kind = "Tuple" /\ Len(codec.fields) = 0) =>
        /\ st # "encodePanic"
        /\ st = "encoded" => buf = pre \o <<0, 0, 0, 4, 0, 0, 0, 0>>

\* Encode of the empty tuple on nil and a buffer that held bytes returned
C9_Witness ==
    /\ st = "encoded"
    /\ codec.kind = "Tuple"
    /\ Len(codec.fields) = 0
    /\ val.t = "nil"
    /\ buf = <<170, 187, 0, 0, 0, 4, 0, 0, 0, 0>>

\* C10: Bool.Decode returns false for the byte 0, true for the byte 1, and
\* panics for every other byte.
C10_BoolDecode ==
    (codec.kind = "Bool" /\ val.t = "byte") =>
        /\ st = "decoded" =>
            /\ out.t = "bool"
            /\ val.v \in {0, 1}
            /\ out.v = (val.v = 1)
        /\ st = "decodePanic" => val.v \in 2..255

\* Bool.Decode panicked on the byte 2
C10_Witness ==
    /\ st = "decodePanic"
    /\ codec.kind = "Bool"
    /\ val.t = "byte"
    /\ val.v = 2

\* the bytes e are one envelope: a length L and exactly L bytes
OneEnvelope(e) == Len(e) >= 4 /\ Take(e, 4) = U32(Len(e) - 4)

\* the codecs and arguments Encode of composite codec c encodes for
\* argument x, in order
ElementsOf(c, x) ==
    CASE c.kind = "Tuple" ->
            [i \in 1..Len(c.fields) |-> [codec |-> c.fields[i], arg |-> x.v[i]]]
      [] c.kind = "NamedTuple" ->
            [i \in 1..Len(c.fields) |->
                [codec |-> c.fields[i].codec, arg |-> MapGet(x.v, c.fields[i].name)]]
      [] c.kind = "Array" ->
            [i \in 1..Len(x.v) |-> [codec |-> c.child, arg |-> x.v[i]]]
      [] OTHER -> <<>>

\* the header the payload of a composite begins with: the element count,
\* or five words for the one dimension of an array
HeaderOk(c, payload) ==
    CASE c.kind \in {"Tuple", "NamedTuple"} ->
            Len(payload) >= 4 /\ Take(payload, 4) = U32(Len(c.fields))
      [] c.kind = "Array" -> Len(payload) >= 20 /\ Take(payload, 4) = U32(1)
      [] OTHER -> TRUE

HeaderLen(c) == IF c.kind = "Array" THEN 20 ELSE 4

\* the envelope of one element, as its codec encodes it
ElementEnvelope(el) == Encode(el.codec, <<>>, el.arg).buf

\* the reserved word Tuple.Encode and NamedTuple.Encode write before every
\* element
ReservedWord(c) == IF c.kind \in {"Tuple", "NamedTuple"} THEN <<0, 0, 0, 0>> ELSE <<>>

RECURSIVE Framed(_, _, _, _)
\* e is the envelope of x under codec c: one envelope, and for a composite
\* the header followed by the envelopes of the elements in order, each
\* framed in the same way; with `reserved`, the reserved word of c comes
\* before the envelope of every element
Framed(c, x, e, reserved) ==
    /\ OneEnvelope(e)
    /\ c.kind \in {"Tuple", "NamedTuple", "Array"} =>
        LET payload == Drop(e, 4)
            els == ElementsOf(c, x)
            word == IF reserved THEN ReservedWord(c) ELSE <<>>
        IN  /\ HeaderOk(c, payload)
            /\ Drop(payload, HeaderLen(c)) =
                Flatten([i \in 1..Len(els) |-> word \o ElementEnvelope(els[i])])
            /\ \A i \in 1..Len(els) :
                Framed(els[i].codec, els[i].arg, ElementEnvelope(els[i]), reserved)

\* C12 as stated: an Encode that returns has left the bytes of the buffer
\* as they were and appended one envelope; the payload of a tuple, a named
\* tuple or an array is the header followed by the envelopes of the
\* elements in order, and by nothing else.
C12_EncodeEnvelopeOfEnvelopes ==
    st = "encoded" =>
        /\ Len(buf) >= Len(pre)
        /\ Take(buf, Len(pre)) = pre
        /\ Framed(codec, val, Drop(buf, Len(pre)), FALSE)

\* C12, amended: an Encode that returns has left the bytes of the buffer
\* as they were and appended one envelope, a length L and exactly L bytes;
\* the payload of a tuple, a named tuple or an array is the header
\* followed, for each element in order, by the element's envelope, which a
\* zero reserved word precedes in a tuple and a named tuple; so at every
\* depth.
C12_EncodeEnvelope ==
    st = "encoded" =>
        /\ Len(buf) >= Len(pre)
        /\ Take(buf, Len(pre)) = pre
        /\ Framed(codec, val, Drop(buf, Len(pre)), TRUE)

\* a tuple of an array of two int16 and a named tuple that holds a string
\* and a tuple was encoded after the bytes the buffer held
C12_Witness ==
    /\ st = "encoded"
    /\ codec.kind = "Tuple"
    /\ Len(codec.fields) = 2
    /\ codec.fields[1].kind = "Array"
    /\ codec.fields[2].kind = "NamedTuple"
    /\ Len(val.v[1].v) = 2
    /\ pre = <<170, 187>>
    /\ Len(buf) > Len(pre) + 8

(***************************************************************************)
(* The callers of an OptionalBool and an OptionalBytes: any sequence of    *)
(* Set, Unset and Get on each, from the zero values.                       *)
(***************************************************************************)
MaxBytesLen == 2    \* bytes of a value given to OptionalBytes.Set

RECURSIVE BytesOfLen(_)
BytesOfLen(n) ==
    IF n = 0 THEN {<<>>}
    ELSE {Append(b, x) : b \in BytesOfLen(n - 1), x \in {0, 255}}

\* the arguments of OptionalBytes.Set: nil, the empty slice, some bytes
BytesArgs == {NilBytes} \cup {SomeBytes(b) : b \in UNION {BytesOfLen(n) : n \in 0..MaxBytesLen}}

CallOptionalBoolSet ==
    /\ \E v \in BOOLEAN :
        /\ optBool' = OptionalBoolSet(optBool, v)
        /\ boolCall' = [op |-> "Set", arg |-> v]
    /\ got' = NoGet
    /\ UNCHANGED <<optBytes, bytesCall, popVars, sessVars>>

CallOptionalBoolUnset ==
    /\ optBool' = OptionalBoolUnset(optBool)
    /\ boolCall' = [op |-> "Unset", arg |-> FALSE]
    /\ got' = NoGet
    /\ UNCHANGED <<optBytes, bytesCall, popVars, sessVars>>

CallOptionalBoolGet ==
    /\ LET r == OptionalBoolGet(optBool)
       IN  got' = [of |-> "bool", bool |-> r.val, bytes |-> NilBytes, ok |-> r.ok]
    /\ UNCHANGED <<optBool, optBytes, boolCall, bytesCall, popVars, sessVars>>

CallOptionalBytesSet ==
    /\ \E v \in BytesArgs :
        /\ optBytes' = OptionalBytesSet(optBytes, v)
        /\ bytesCall' = [op |-> "Set", arg |-> v]
    /\ got' = NoGet
    /\ UNCHANGED <<optBool, boolCall, popVars, sessVars>>

CallOptionalBytesUnset ==
    /\ optBytes' = OptionalBytesUnset(optBytes)
    /\ bytesCall' = [op |-> "Unset", arg |-> NilBytes]
    /\ got' = NoGet
    /\ UNCHANGED <<optBool, boolCall, popVars, sessVars>>

CallOptionalBytesGet ==
    /\ LET r == OptionalBytesGet(optBytes)
       IN  got' = [of |-> "bytes", bool |-> FALSE, bytes |-> r.val, ok |-> r.ok]
    /\ UNCHANGED <<optBool, optBytes, boolCall, bytesCall, popVars, sessVars>>

InitOptional ==
    /\ PopIdle
    /\ SessIdle
    /\ OptIdle

NextOptional ==
    \/ CallOptionalBoolSet
    \/ CallOptionalBoolUnset
    \/ CallOptionalBoolGet
    \/ CallOptionalBytesSet
    \/ CallOptionalBytesUnset
    \/ CallOptionalBytesGet

SpecOptional == InitOptional /\ [][NextOptional]_vars

(***************************************************************************)
(* Claims about the optional types.                                        *)
(***************************************************************************)
\* what Get returns after the calls made: the value of the most recent
\* call when it was Set of a value, the zero value and false otherwise
ExpectedBool ==
    IF boolCall.op = "Set" THEN [val |-> boolCall.arg, ok |-> TRUE]
    ELSE [val |-> FALSE, ok |-> FALSE]

ExpectedBytes ==
    IF bytesCall.op = "Set" /\ ~bytesCall.arg.isNil
    THEN [val |-> bytesCall.arg, ok |-> TRUE]
    ELSE [val |-> NilBytes, ok |-> FALSE]

\* C11: after any sequence of Set and Unset from the zero value, Get
\* returns (v, true) when the most recent call was Set(v) (v not nil for
\* OptionalBytes) and the zero value with false when there was no call,
\* when it was Unset and when it was Set(nil); what a Get returned is
\* that; a value that is not present is the zero value.
C11_OptionalGet ==
    /\ OptionalBoolGet(optBool) = ExpectedBool
    /\ OptionalBytesGet(optBytes) = ExpectedBytes
    /\ got.of = "bool" => got.bool = ExpectedBool.val /\ got.ok = ExpectedBool.ok
    /\ got.of = "bytes" => got.bytes = ExpectedBytes.val /\ got.ok = ExpectedBytes.ok
    /\ ~optBool.present => optBool = ZeroOptionalBool
    /\ ~optBytes.isSet => optBytes = ZeroOptionalBytes

\* Get on the OptionalBytes returned nil and false after Set(nil), while
\* the OptionalBool holds true after Set(true)
C11_Witness ==
    /\ got.of = "bytes"
    /\ bytesCall.op = "Set"
    /\ bytesCall.arg.isNil
    /\ got.bytes = NilBytes
    /\ ~got.ok
    /\ boolCall.op = "Set"
    /\ optBool = [val |-> TRUE, present |-> TRUE]

====
